---- MODULE Spec2Model ----
(***************************************************************************)
(* A model of the retrieval-augmented chat application of                  *)
(* src/src/fastapi_app: the hybrid search of postgres_searcher.py and the  *)
(* chat pipeline of rag.py.                                                *)
(*                                                                         *)
(* SearchSpec: one call of PostgresSearcher.search on a catalog.           *)
(* RewriteSpec: one call of RAGChat.get_search_query on a completion.      *)
(* Spec: one chat request through RAGChat.run, streamed or not.            *)
(***************************************************************************)
EXTENDS Integers, Sequences, FiniteSets, TLC

\* ------------------------------------------------------------------ bounds
\* catalogs of 0..MaxItems rows are enumerated exhaustively
MaxItems == 3
\* query_top ranges over 0..MaxTop on the small catalogs
MaxTop == 3
\* texts of the rewrite completion have 0..MaxText characters
MaxText == 2
\* the Completion Provider's stream has 0..MaxChunks chunks
MaxChunks == 3

\* ------------------------------------------------------- program constants
\* LIMIT 20 of vector_query and keyword_query
SubLimit == 20
\* LIMIT 20 of hybrid_query
HybridLimit == 20
\* the bound parameter k of the hybrid query
RRF_K == 60
\* overrides.get("top", 3)
DefaultTop == 3

\* Python's None, for values modelled as strings
None == "None"
\* A text is a sequence of characters; None where a text is expected is NoneText
NoneText == <<"None">>

VARIABLES
    \* ---- the Catalog Store (table items) as seen by one query
    catalog,        \* [n, dist, kw, price]: rows 1..n; dist[i] = embedding <=> :embedding,
                    \* kw[i] = ts_rank_cd of description against :query, 0 = no @@ match
    tie,            \* [sub, fused]: the order the store gives to rows with equal sort keys
    \* ---- the arguments of PostgresSearcher.search
    query_text,     \* NoneText, the empty text or a text
    query_vector,   \* <<>> or a non-empty vector
    query_top,
    filters,        \* [none |-> BOOLEAN, list |-> sequence of filters]
    \* ---- the call
    searchPc,       \* "call", "returned", "raised"
    sql,            \* the statement chosen at lines 61-68: "hybrid", "vector", "keyword", None
    sessions,       \* sessions opened by async_session_maker()
    statements,     \* statements executed against the store
    results,        \* the rows fetched at lines 71-76: sequence of [id, col]
    items,          \* the returned list (ids of the hydrated Item models)
    \* ---- the call of RAGChat.get_search_query
    chat_completion,    \* choices[0].message: [tool_calls, content]
    user_query,
    rewritePc,          \* "idle", "call", "returned", "raised"
    search_query,       \* the returned text
    \* ---- the chat request (RAGChat.run)
    stream,                 \* the stream argument of run
    retrieval_mode,         \* overrides.get("retrieval_mode"): "text", "vectors", "hybrid", None
    original_user_query,    \* history[-1]["content"]
    embed_model,            \* self.embed_model
    pc,                     \* where the request is: "idle", "rewrite", "embed", "retrieve",
                            \* "yield_first", "await_stream", "streaming", "await_completion",
                            \* "done", "failed"
    rag_query_text,         \* the local query_text of run_until_final_call
    vector,                 \* the local vector of run_until_final_call
    extra_info,             \* the trace returned by run_until_final_call
    upstream,               \* the stream the Completion Provider answers GENERATE with
    pulled,                 \* how many upstream chunks the async for has taken
    out,                    \* the chunks run_with_streaming has yielded
    response,               \* what run_without_streaming has returned
    error,                  \* the exception that left run, None if none
    trace                   \* the external calls and emissions of the request, in order

searchVars == <<catalog, tie, query_text, query_vector, query_top, filters,
                searchPc, sql, sessions, statements, results, items>>

rewriteVars == <<chat_completion, user_query, rewritePc, search_query>>

pipelineVars == <<stream, retrieval_mode, original_user_query, embed_model, pc,
                  rag_query_text, vector, extra_info, upstream, pulled, out, response,
                  error, trace>>

vars == <<searchVars, rewriteVars, pipelineVars>>

\* ------------------------------------------------------------ SQL values
\* A nullable SQL value: v is meaningful only when null is FALSE.
SqlNull == [null |-> TRUE, v |-> <<0, 1>>]
SqlVal(x) == [null |-> FALSE, v |-> x]

\* numerics are exact fractions <<numerator, denominator>>, denominator > 0
FracAdd(a, b) == <<a[1] * b[2] + b[1] * a[2], a[2] * b[2]>>
FracLt(a, b) == a[1] * b[2] < b[1] * a[2]
FracEq(a, b) == a[1] * b[2] = b[1] * a[2]

\* :k + rank  (NULL if rank is NULL)
SqlPlusK(rank) == IF rank.null THEN SqlNull ELSE SqlVal(<<RRF_K * rank.v[2] + rank.v[1], rank.v[2]>>)
\* 1.0 / x    (NULL if x is NULL)
SqlInverse(x) == IF x.null THEN SqlNull ELSE SqlVal(<<x.v[2], x.v[1]>>)
\* COALESCE(x, d)
Coalesce(x, d) == IF x.null THEN d ELSE x

\* --------------------------------------------------------------- sequences
\* Python's s[:n]
SliceTo(s, n) ==
    IF n >= 0
    THEN SubSeq(s, 1, IF n < Len(s) THEN n ELSE Len(s))
    ELSE SubSeq(s, 1, IF Len(s) + n > 0 THEN Len(s) + n ELSE 0)

\* SQL LIMIT n
Limit(s, n) == SubSeq(s, 1, IF n < Len(s) THEN n ELSE Len(s))

Range(s) == {s[i] : i \in 1..Len(s)}

\* the rows of the store's order for equal sort keys
TieBefore(t, a, b) == IF t = "asc" THEN a < b ELSE a > b

\* ------------------------------------------------------------ the queries
FilterOps == {"<", ">"}

\* "{column} {comparison_operator} {value}" evaluated on row i (column price)
FilterHolds(c, i, f) ==
    IF f.op = "<" THEN c.price[i] < f.value ELSE c.price[i] > f.value

\* lines 20-26: the clause interpolated into both sub-queries; TRUE when empty
FilterClause(c, i, fs) ==
    IF ~fs.none /\ Len(fs.list) > 0
    THEN FilterHolds(c, i, fs.list[1])
    ELSE TRUE

AllIds(c) == [i \in 1..c.n |-> i]

\* FROM items {filter_clause_where}
VectorRows(c, fs) == SelectSeq(AllIds(c), LAMBDA i : FilterClause(c, i, fs))

\* RANK () OVER (ORDER BY embedding <=> :embedding)
VectorRank(c, fs, i) ==
    1 + Cardinality({j \in Range(VectorRows(c, fs)) : c.dist[j] < c.dist[i]})

\* lines 28-34: vector_query, rows [id, col] with col = rank
VectorQuery(c, fs, t) ==
    LET sorted == SortSeq(VectorRows(c, fs),
                          LAMBDA a, b : \/ c.dist[a] < c.dist[b]
                                        \/ c.dist[a] = c.dist[b] /\ TieBefore(t, a, b))
        rows == [x \in 1..Len(sorted) |->
                    [id |-> sorted[x], col |-> <<VectorRank(c, fs, sorted[x]), 1>>]]
    IN  Limit(rows, SubLimit)

\* plainto_tsquery of an empty text matches no row
KeywordMatches(c, q, i) == q # <<>> /\ c.kw[i] > 0

\* FROM items, plainto_tsquery(...) WHERE ... @@ query {filter_clause_and}
KeywordRows(c, q, fs) ==
    SelectSeq(AllIds(c), LAMBDA i : KeywordMatches(c, q, i) /\ FilterClause(c, i, fs))

\* RANK () OVER (ORDER BY ts_rank_cd(...) DESC)
KeywordRank(c, q, fs, i) ==
    1 + Cardinality({j \in Range(KeywordRows(c, q, fs)) : c.kw[j] > c.kw[i]})

\* lines 36-42: keyword_query, rows [id, col] with col = rank
KeywordQuery(c, q, fs, t) ==
    LET sorted == SortSeq(KeywordRows(c, q, fs),
                          LAMBDA a, b : \/ c.kw[a] > c.kw[b]
                                        \/ c.kw[a] = c.kw[b] /\ TieBefore(t, a, b))
        rows == [x \in 1..Len(sorted) |->
                    [id |-> sorted[x], col |-> <<KeywordRank(c, q, fs, sorted[x]), 1>>]]
    IN  Limit(rows, SubLimit)

\* the rank column of the row of sub-result r joined to id i; NULL when there is none
JoinedRank(r, i) ==
    IF \E x \in 1..Len(r) : r[x].id = i
    THEN SqlVal((CHOOSE row \in Range(r) : row.id = i).col)
    ELSE SqlNull

\* mutant of RankTerm: a missing rank defaults to rank 0, 1.0 / (:k + COALESCE(rank, 0))
RankTerm_DefaultRankZero(rank) ==
    SqlInverse(SqlPlusK(Coalesce(rank, SqlVal(<<0, 1>>)))).v

\* lines 53-54: COALESCE(1.0 / (:k + rank), 0.0)
RankTerm(rank) == Coalesce(SqlInverse(SqlPlusK(rank)), SqlVal(<<0, 1>>)).v

\* lines 52-54: the score column of the joined row of id i
FusedScore(sem, kwd, i) ==
    FracAdd(RankTerm(JoinedRank(sem, i)), RankTerm(JoinedRank(kwd, i)))

\* mutant of FusedBefore: ORDER BY score (ascending)
FusedBefore_Ascending(t, a, b) ==
    \/ FracLt(a.col, b.col)
    \/ FracEq(a.col, b.col) /\ TieBefore(t, a.id, b.id)

\* line 57: ORDER BY score DESC; a before b
FusedBefore(t, a, b) ==
    \/ FracLt(b.col, a.col)
    \/ FracEq(a.col, b.col) /\ TieBefore(t, a.id, b.id)

\* lines 44-59: hybrid_query, rows [id, col] with col = score
HybridQuery(c, q, fs, t) ==
    LET sem == VectorQuery(c, fs, t.sub)
        kwd == KeywordQuery(c, q, fs, t.sub)
        \* FULL OUTER JOIN ... ON semantic_search.id = keyword_search.id
        ids == SelectSeq(AllIds(c),
                         LAMBDA i : i \in {r.id : r \in Range(sem)} \cup {r.id : r \in Range(kwd)})
        joined == [x \in 1..Len(ids) |-> [id |-> ids[x], col |-> FusedScore(sem, kwd, ids[x])]]
        sorted == SortSeq(joined, LAMBDA a, b : FusedBefore(t.fused, a, b))
    IN  Limit(sorted, HybridLimit)

\* mutant of SelectSql: the hybrid statement whenever there is a text
SelectSql_FuseWithText(q, v) ==
    IF q # NoneText THEN "hybrid"
    ELSE IF Len(v) > 0 THEN "vector"
    ELSE None

\* mutant of SelectSql: no else branch, the keyword statement is the default
SelectSql_NoRaise(q, v) ==
    IF q # NoneText /\ Len(v) > 0 THEN "hybrid"
    ELSE IF Len(v) > 0 THEN "vector"
    ELSE "keyword"

\* lines 61-68: which statement is executed; None when the call raises ValueError
SelectSql(q, v) ==
    IF q # NoneText /\ Len(v) > 0 THEN "hybrid"
    ELSE IF Len(v) > 0 THEN "vector"
    ELSE IF q # NoneText THEN "keyword"
    ELSE None

\* lines 70-76: the rows session.execute(sql, ...).fetchall() returns
Execute(s, c, q, fs, t) ==
    IF s = "hybrid" THEN HybridQuery(c, q, fs, t)
    ELSE IF s = "vector" THEN VectorQuery(c, fs, t.sub)
    ELSE KeywordQuery(c, q, fs, t.sub)

\* lines 79-83: one Item per row of results[:query_top], in order
Hydrate(rows, top) ==
    LET kept == SliceTo(rows, top)
    IN  [x \in 1..Len(kept) |-> kept[x].id]

\* ---------------------------------------------------------------- inputs
Ties == {[sub |-> "asc", fused |-> "asc"], [sub |-> "desc", fused |-> "desc"]}

FilterLists ==
    {[none |-> TRUE, list |-> <<>>],
     [none |-> FALSE, list |-> <<>>],
     [none |-> FALSE, list |-> <<[op |-> ">", value |-> 1]>>],
     [none |-> FALSE, list |-> <<[op |-> "<", value |-> 3], [op |-> ">", value |-> 1]>>]}

SmallCatalogs ==
    UNION {[n : {m}, dist : [1..m -> 1..2], kw : [1..m -> 0..2], price : {[i \in 1..m |-> i]}]
           : m \in 0..MaxItems}

\* catalogs with more rows than the LIMITs keep
BigN == SubLimit + 2
BigCatalogs ==
    [n : {BigN},
     dist : {[i \in 1..BigN |-> i], [i \in 1..BigN |-> BigN + 1 - i], [i \in 1..BigN |-> 1]},
     kw : {[i \in 1..BigN |-> 1], [i \in 1..BigN |-> i], [i \in 1..BigN |-> IF i < 3 THEN 0 ELSE 1]},
     price : {[i \in 1..BigN |-> i]}]

QueryTexts == {NoneText, <<>>, <<"a">>}
QueryVectors == {<<>>, <<1>>}

\* ------------------------------------------------------ the Query Rewriter
\* rag.py line 74
NO_RESPONSE == <<"0">>

\* the characters of the modelled texts: a digit, a blank, a letter
Chars == {"0", " ", "a"}

IsSpace(ch) == ch = " "

\* mutant of Strip: the text is compared as it is
Strip_Missing(s) == s

\* str.strip(): the text without its leading and trailing whitespace
RECURSIVE Strip(_)
Strip(s) ==
    IF Len(s) = 0 THEN s
    ELSE IF IsSpace(s[1]) THEN Strip(SubSeq(s, 2, Len(s)))
    ELSE IF IsSpace(s[Len(s)]) THEN Strip(SubSeq(s, 1, Len(s) - 1))
    ELSE s

\* the truth value of an optional text: None and the empty text are false
Truthy(s) == s # NoneText /\ Len(s) > 0

\* json.loads(function.arguments): raises on a text that is not JSON, else the object
JsonLoads(arguments) ==
    IF arguments.json = "malformed"
    THEN [raised |-> TRUE, value |-> [has_query |-> FALSE, search_query |-> <<>>]]
    ELSE [raised |-> FALSE,
          value |-> [has_query |-> arguments.has_query, search_query |-> arguments.search_query]]

\* arg.get("search_query", default)
GetQueryArg(arg, default) == IF arg.has_query THEN arg.search_query ELSE default

\* lines 161-169: the loop over tool_calls from index x on;
\* [kind |-> "return" | "raise" | "end", value]
RECURSIVE ToolCallLoop(_, _)
ToolCallLoop(tool_calls, x) ==
    IF x > Len(tool_calls) THEN [kind |-> "end", value |-> <<>>]
    ELSE LET tool == tool_calls[x] IN
         IF tool.type # "function" THEN ToolCallLoop(tool_calls, x + 1)
         ELSE IF tool.name = "search_sources"
         THEN LET arg == JsonLoads(tool.arguments) IN
              IF arg.raised THEN [kind |-> "raise", value |-> <<>>]
              ELSE LET q == GetQueryArg(arg.value, NO_RESPONSE) IN
                   IF q # NO_RESPONSE THEN [kind |-> "return", value |-> q]
                   ELSE ToolCallLoop(tool_calls, x + 1)
         ELSE ToolCallLoop(tool_calls, x + 1)

\* lines 157-173: get_search_query; [kind |-> "return" | "raise", value]
GetSearchQuery(completion, uq) ==
    IF Len(completion.tool_calls) > 0
    THEN LET r == ToolCallLoop(completion.tool_calls, 1) IN
         IF r.kind = "end" THEN [kind |-> "return", value |-> uq] ELSE r
    ELSE IF Truthy(completion.content)
    THEN IF Strip(completion.content) # NO_RESPONSE
         THEN [kind |-> "return", value |-> completion.content]
         ELSE [kind |-> "return", value |-> uq]
    ELSE [kind |-> "return", value |-> uq]

\* ---- inputs
Texts == UNION {[1..m -> Chars] : m \in 0..MaxText}

ToolArguments ==
    {[json |-> "malformed", has_query |-> FALSE, search_query |-> <<>>],
     [json |-> "object", has_query |-> FALSE, search_query |-> <<>>]}
    \cup [json : {"object"}, has_query : {TRUE}, search_query : Texts]

ToolCalls == [type : {"function", "custom"}, name : {"search_sources", "other"},
              arguments : ToolArguments]

\* a message without tool calls has tool_calls None or [], both <<>> here
Completions ==
    [tool_calls : {<<>>}, content : Texts \cup {NoneText}]
    \cup [tool_calls : {<<t>> : t \in ToolCalls} \cup {<<t, u>> : t, u \in ToolCalls},
          content : {NoneText, <<"a">>}]

UserQueries == {<<"a", "a">>, <<"0">>}

\* --------------------------------------------------------- idle components
SearchIdle ==
    /\ catalog = [n |-> 0, dist |-> <<>>, kw |-> <<>>, price |-> <<>>]
    /\ tie = [sub |-> "asc", fused |-> "asc"]
    /\ query_text = NoneText
    /\ query_vector = <<>>
    /\ query_top = 0
    /\ filters = [none |-> TRUE, list |-> <<>>]
    /\ searchPc = "idle"
    /\ sql = None
    /\ sessions = 0
    /\ statements = 0
    /\ results = <<>>
    /\ items = <<>>

RewriteIdle ==
    /\ chat_completion = [tool_calls |-> <<>>, content |-> NoneText]
    /\ user_query = NoneText
    /\ rewritePc = "idle"
    /\ search_query = NoneText

NoInfo == [data_points |-> <<>>, thoughts |-> [search_query |-> NoneText, results |-> <<>>]]
NoStream == [chunks |-> <<>>, ok |-> TRUE]

PipelineIdle ==
    /\ stream = FALSE
    /\ retrieval_mode = None
    /\ original_user_query = NoneText
    /\ embed_model = None
    /\ pc = "idle"
    /\ rag_query_text = NoneText
    /\ vector = <<>>
    /\ extra_info = NoInfo
    /\ upstream = NoStream
    /\ pulled = 0
    /\ out = <<>>
    /\ response = None
    /\ error = None
    /\ trace = <<>>

\* ----------------------------------------------------------- RewriteSpec
RewriteInit ==
    /\ SearchIdle
    /\ PipelineIdle
    /\ chat_completion \in Completions
    /\ user_query \in UserQueries
    /\ rewritePc = "call"
    /\ search_query = NoneText

\* line 166: json.loads raises, and the exception leaves get_search_query
GetSearchQueryRaise ==
    /\ rewritePc = "call"
    /\ GetSearchQuery(chat_completion, user_query).kind = "raise"
    /\ rewritePc' = "raised"
    /\ UNCHANGED <<chat_completion, user_query, search_query, searchVars, pipelineVars>>

\* lines 157-173: get_search_query returns
GetSearchQueryReturn ==
    /\ rewritePc = "call"
    /\ GetSearchQuery(chat_completion, user_query).kind = "return"
    /\ search_query' = GetSearchQuery(chat_completion, user_query).value
    /\ rewritePc' = "returned"
    /\ UNCHANGED <<chat_completion, user_query, searchVars, pipelineVars>>

RewriteNext == GetSearchQueryRaise \/ GetSearchQueryReturn

RewriteSpec == RewriteInit /\ [][RewriteNext]_vars

\* ----------------------------------------------------------- SearchSpec
SearchInit ==
    /\ RewriteIdle
    /\ PipelineIdle
    /\ \/ /\ catalog \in SmallCatalogs
          /\ query_top \in 0..MaxTop
       \/ /\ catalog \in BigCatalogs
          /\ query_top \in {SubLimit - 1, SubLimit + 1}
    /\ tie \in Ties
    /\ query_text \in QueryTexts
    /\ query_vector \in QueryVectors
    /\ filters \in FilterLists
    /\ searchPc = "call"
    /\ sql = None
    /\ sessions = 0
    /\ statements = 0
    /\ results = <<>>
    /\ items = <<>>

\* lines 61-68, the else branch: raise ValueError before any session is opened
SearchRaise ==
    /\ searchPc = "call"
    /\ SelectSql(query_text, query_vector) = None
    /\ searchPc' = "raised"
    /\ UNCHANGED <<catalog, tie, query_text, query_vector, query_top, filters,
                   sql, sessions, statements, results, items, rewriteVars, pipelineVars>>

\* lines 61-83: choose the statement, execute it in one session, hydrate the rows
SearchReturn ==
    /\ searchPc = "call"
    /\ SelectSql(query_text, query_vector) # None
    /\ sql' = SelectSql(query_text, query_vector)
    /\ sessions' = sessions + 1
    /\ results' = Execute(sql', catalog, query_text, filters, tie)
    /\ items' = Hydrate(results', query_top)
    /\ statements' = statements + 1 + Len(items')
    /\ searchPc' = "returned"
    /\ UNCHANGED <<catalog, tie, query_text, query_vector, query_top, filters,
                   rewriteVars, pipelineVars>>

SearchNext == SearchRaise \/ SearchReturn

SearchSpec == SearchInit /\ [][SearchNext]_vars

\* ------------------------------------------------------ the chat request
\* rag.py lines 255-256
HasText(mode) == mode \in {"text", "hybrid", None}
\* mutant of HasVector: the embedding is computed in every mode
HasVector_Always(mode) == TRUE

HasVector(mode) == mode \in {"vectors", "hybrid", None}

\* lines 125-136: SUPPORTED_DIMENSIONS_MODEL[self.embed_model]
SupportsDimensions(model) == model \in {"text-embedding-3-small", "text-embedding-3-large"}

\* lines 134-136: with a model that takes dimensions the argument is read from
\* self.embedding_dimensions, an attribute __init__ never sets (it sets
\* self.embed_dimensions): AttributeError before the provider is called
DimensionsArgsRaise(model) == SupportsDimensions(model)

\* lines 316-318: only keep the text query if the retrieval mode uses text
KeptQueryText(mode, q) == IF HasText(mode) THEN q ELSE NoneText

\* lines 320-324: the positional arguments of the search call:
\* the original user query, the vector and top
SearchArguments(uq, q, v) ==
    [query_text |-> uq, query_vector |-> v, query_top |-> DefaultTop,
     filters |-> [none |-> TRUE, list |-> <<>>]]

\* lines 345-382: extra_info; the thought step "Search using generated search query"
\* records the local query_text
ExtraInfo(q, found) ==
    [data_points |-> found, thoughts |-> [search_query |-> q, results |-> found]]

\* lines 211-222: the first chunk run_with_streaming yields
SyntheticChunk(info) ==
    [choices |-> <<[delta |-> [role |-> "assistant"], context |-> info,
                    session_state |-> None, finish_reason |-> None, index |-> 0]>>,
     object |-> "chat.completion.chunk"]

\* line 226: event_chunk.model_dump(), the dict of the chunk's fields
ModelDump(chunk) == chunk.fields

\* mutant of Forwards: every event is yielded
Forwards_All(event) == TRUE

\* line 227: if event["choices"]
Forwards(event) == Len(event.choices) > 0

\* mutant of AfterFinalCall: run_with_streaming awaits the completion call before
\* its first yield
AfterFinalCall_AwaitFirst(s) == IF s THEN "await_stream" ELSE "await_completion"

\* lines 192-195 and 208-211: what follows the return of run_until_final_call, whose
\* chat_coroutine is created and not awaited (line 384): run_with_streaming yields
\* the first chunk, run_without_streaming awaits the coroutine
AfterFinalCall(s) == IF s THEN "yield_first" ELSE "await_completion"

\* ---- inputs
Modes == {"text", "vectors", "hybrid", None}
EmbedModels == {"text-embedding-ada-002", "text-embedding-3-small"}

PipelineCatalogs ==
    {[n |-> 4, dist |-> <<2, 1, 3, 1>>, kw |-> <<1, 0, 2, 1>>, price |-> <<1, 2, 3, 4>>]}

SearchSourcesCall(args) == [type |-> "function", name |-> "search_sources", arguments |-> args]

\* the completions REWRITE is answered with: plain texts, the sentinel, no content,
\* and calls of search_sources with a query, without one, and with malformed JSON
RewriteCompletions ==
    [tool_calls : {<<>>}, content : {<<"a">>, <<"0">>, NoneText}]
    \cup [tool_calls : {<<SearchSourcesCall([json |-> "object", has_query |-> TRUE, search_query |-> <<"a">>])>>,
                        <<SearchSourcesCall([json |-> "object", has_query |-> FALSE, search_query |-> <<>>])>>,
                        <<SearchSourcesCall([json |-> "malformed", has_query |-> FALSE, search_query |-> <<>>])>>},
          content : {NoneText}]

\* a ChatCompletionChunk of the provider's stream: no choices, or one choice with
\* a content delta
UpstreamChunks ==
    {[model |-> "ChatCompletionChunk", fields |-> [choices |-> <<>>, object |-> "chat.completion.chunk"]]}
    \cup {[model |-> "ChatCompletionChunk",
           fields |-> [choices |-> <<[delta |-> [content |-> c], finish_reason |-> None, index |-> 0]>>,
                       object |-> "chat.completion.chunk"]] : c \in {"x", "y"}}

\* the stream ends after its chunks (ok) or raises after them
UpstreamStreams ==
    [chunks : UNION {[1..m -> UpstreamChunks] : m \in 0..MaxChunks}, ok : BOOLEAN]

\* ---- the request
Init ==
    /\ RewriteIdle
    /\ catalog \in PipelineCatalogs
    /\ tie \in Ties
    /\ query_text = NoneText
    /\ query_vector = <<>>
    /\ query_top = 0
    /\ filters = [none |-> TRUE, list |-> <<>>]
    /\ searchPc = "idle"
    /\ sql = None
    /\ sessions = 0
    /\ statements = 0
    /\ results = <<>>
    /\ items = <<>>
    /\ stream \in BOOLEAN
    /\ retrieval_mode \in Modes
    /\ original_user_query \in UserQueries
    /\ embed_model \in EmbedModels
    /\ pc = "rewrite"
    /\ rag_query_text = NoneText
    /\ vector = <<>>
    /\ extra_info = NoInfo
    /\ upstream = NoStream
    /\ pulled = 0
    /\ out = <<>>
    /\ response = None
    /\ error = None
    /\ trace = <<>>

\* mutant of OnError: the handler yields a chunk that carries the error
OnError_YieldsErrorChunk(o, e) == Append(o, [error |-> e])

\* routes.py lines 48-52 ("todo try except"): response_stream has no handler around
\* its async for, and rag.py lines 201-228 have none either: an exception adds
\* nothing to the chunks already yielded
OnError(o, e) == o

\* mutant of Raise: the exception is caught and the request ends normally
Raise_Swallowed(e, events) ==
    /\ pc' = "done"
    /\ error' = None
    /\ trace' = trace \o events
    /\ out' = out

\* an exception leaves run: nothing catches it in rag.py or routes.py
Raise(e, events) ==
    /\ pc' = "failed"
    /\ error' = e
    /\ trace' = trace \o events
    /\ out' = OnError(out, e)

\* lines 296-305: the completion call of STEP 1 raises
RewriteCallFails ==
    /\ pc = "rewrite"
    /\ Raise("ProviderError", <<"REWRITE", "REWRITE_ERROR">>)
    /\ UNCHANGED <<searchVars, rewriteVars, stream, retrieval_mode, original_user_query,
                   embed_model, rag_query_text, vector, extra_info, upstream, pulled,
                   response>>

\* lines 296-307: the completion call returns, get_search_query raises at json.loads
RewriteExtractionFails ==
    /\ pc = "rewrite"
    /\ \E c \in RewriteCompletions :
          /\ GetSearchQuery(c, original_user_query).kind = "raise"
          /\ chat_completion' = c
    /\ user_query' = original_user_query
    /\ rewritePc' = "raised"
    /\ Raise("JSONDecodeError", <<"REWRITE">>)
    /\ UNCHANGED <<searchVars, search_query, stream, retrieval_mode, original_user_query,
                   embed_model, rag_query_text, vector, extra_info, upstream, pulled,
                   response>>

\* lines 296-307: the completion call returns and get_search_query gives query_text
RewriteReturns ==
    /\ pc = "rewrite"
    /\ \E c \in RewriteCompletions :
          /\ GetSearchQuery(c, original_user_query).kind = "return"
          /\ chat_completion' = c
          /\ search_query' = GetSearchQuery(c, original_user_query).value
    /\ user_query' = original_user_query
    /\ rewritePc' = "returned"
    /\ rag_query_text' = search_query'
    /\ pc' = "embed"
    /\ trace' = Append(trace, "REWRITE")
    /\ UNCHANGED <<searchVars, stream, retrieval_mode, original_user_query, embed_model,
                   vector, extra_info, upstream, pulled, out, response, error>>

\* lines 312-318 without vectors: no embedding call
EmbedSkipped ==
    /\ pc = "embed"
    /\ ~HasVector(retrieval_mode)
    /\ rag_query_text' = KeptQueryText(retrieval_mode, rag_query_text)
    /\ pc' = "retrieve"
    /\ UNCHANGED <<searchVars, rewriteVars, stream, retrieval_mode, original_user_query,
                   embed_model, vector, extra_info, upstream, pulled, out, response, error,
                   trace>>

\* lines 134-136: compute_text_embedding raises AttributeError
EmbedArgumentsFail ==
    /\ pc = "embed"
    /\ HasVector(retrieval_mode)
    /\ DimensionsArgsRaise(embed_model)
    /\ Raise("AttributeError", <<>>)
    /\ UNCHANGED <<searchVars, rewriteVars, stream, retrieval_mode, original_user_query,
                   embed_model, rag_query_text, vector, extra_info, upstream, pulled,
                   response>>

\* lines 137-142: the embeddings call raises
EmbedCallFails ==
    /\ pc = "embed"
    /\ HasVector(retrieval_mode)
    /\ ~DimensionsArgsRaise(embed_model)
    /\ Raise("ProviderError", <<"EMBED", "EMBED_ERROR">>)
    /\ UNCHANGED <<searchVars, rewriteVars, stream, retrieval_mode, original_user_query,
                   embed_model, rag_query_text, vector, extra_info, upstream, pulled,
                   response>>

\* lines 312-318: the embedding of the original user query, then the text is dropped
\* unless the mode uses text
EmbedReturns ==
    /\ pc = "embed"
    /\ HasVector(retrieval_mode)
    /\ ~DimensionsArgsRaise(embed_model)
    /\ vector' = <<1>>
    /\ rag_query_text' = KeptQueryText(retrieval_mode, rag_query_text)
    /\ pc' = "retrieve"
    /\ trace' = Append(trace, "EMBED")
    /\ UNCHANGED <<searchVars, rewriteVars, stream, retrieval_mode, original_user_query,
                   embed_model, extra_info, upstream, pulled, out, response, error>>

\* the searcher is called with SearchArguments. rag.py names the method
\* hybrid_search; PostgresSearcher defines it as search, with these parameters in
\* this order, and the call is modelled as a call of that method.
SearchCalled ==
    LET a == SearchArguments(original_user_query, rag_query_text, vector)
    IN  /\ query_text' = a.query_text
        /\ query_vector' = a.query_vector
        /\ query_top' = a.query_top
        /\ filters' = a.filters

\* lines 320-324: the search call raises (the store fails, search raises ValueError,
\* the searcher has no method of the name called)
RetrieveFails ==
    /\ pc = "retrieve"
    /\ SearchCalled
    /\ searchPc' = "raised"
    /\ Raise("SearchError", <<"RETRIEVE", "RETRIEVE_ERROR">>)
    /\ UNCHANGED <<catalog, tie, sql, sessions, statements, results, items, rewriteVars,
                   stream, retrieval_mode, original_user_query, embed_model, rag_query_text,
                   vector, extra_info, upstream, pulled, response>>

\* lines 320-393: the search returns; sources, messages and extra_info are built and
\* the completion coroutine is created; run_until_final_call returns
RetrieveReturns ==
    /\ pc = "retrieve"
    /\ SearchCalled
    /\ SelectSql(query_text', query_vector') # None
    /\ sql' = SelectSql(query_text', query_vector')
    /\ sessions' = sessions + 1
    /\ results' = Execute(sql', catalog, query_text', filters', tie)
    /\ items' = Hydrate(results', query_top')
    /\ statements' = statements + 1 + Len(items')
    /\ searchPc' = "returned"
    /\ extra_info' = ExtraInfo(rag_query_text, items')
    /\ pc' = AfterFinalCall(stream)
    /\ trace' = trace \o <<"RETRIEVE", "ASSEMBLE">>
    /\ UNCHANGED <<catalog, tie, rewriteVars, stream, retrieval_mode, original_user_query,
                   embed_model, rag_query_text, vector, upstream, pulled, out, response,
                   error>>

\* lines 195-199: run_without_streaming awaits the completion, which raises
GenerateFails ==
    /\ pc = "await_completion"
    /\ Raise("ProviderError", <<"GENERATE", "GENERATE_ERROR">>)
    /\ UNCHANGED <<searchVars, rewriteVars, stream, retrieval_mode, original_user_query,
                   embed_model, rag_query_text, vector, extra_info, upstream, pulled,
                   response>>

\* lines 195-199: run_without_streaming awaits the completion and returns it with
\* extra_info as context
GenerateReturns ==
    /\ pc = "await_completion"
    /\ response' = [answer |-> "x", context |-> extra_info, session_state |-> None]
    /\ pc' = "done"
    /\ trace' = trace \o <<"GENERATE", "RETURN">>
    /\ UNCHANGED <<searchVars, rewriteVars, stream, retrieval_mode, original_user_query,
                   embed_model, rag_query_text, vector, extra_info, upstream, pulled, out,
                   error>>

\* lines 211-222: run_with_streaming yields its first chunk
YieldFirst ==
    /\ pc = "yield_first"
    /\ out' = Append(out, SyntheticChunk(extra_info))
    /\ pc' = "await_stream"
    /\ trace' = Append(trace, "SYNTHETIC")
    /\ UNCHANGED <<searchVars, rewriteVars, stream, retrieval_mode, original_user_query,
                   embed_model, rag_query_text, vector, extra_info, upstream, pulled,
                   response, error>>

\* line 224: await chat_coroutine raises
StreamCallFails ==
    /\ pc = "await_stream"
    /\ Raise("ProviderError", <<"GENERATE", "GENERATE_ERROR">>)
    /\ UNCHANGED <<searchVars, rewriteVars, stream, retrieval_mode, original_user_query,
                   embed_model, rag_query_text, vector, extra_info, upstream, pulled,
                   response>>

\* line 224: await chat_coroutine gives the provider's stream
StreamOpens ==
    /\ pc = "await_stream"
    /\ upstream' \in UpstreamStreams
    /\ pc' = "streaming"
    /\ trace' = Append(trace, "GENERATE")
    /\ UNCHANGED <<searchVars, rewriteVars, stream, retrieval_mode, original_user_query,
                   embed_model, rag_query_text, vector, extra_info, pulled, out, response,
                   error>>

\* lines 224-228: one turn of the async for: the next chunk is taken, dumped, and
\* yielded if it has choices
StreamChunk ==
    /\ pc = "streaming"
    /\ pulled < Len(upstream.chunks)
    /\ pulled' = pulled + 1
    /\ LET event == ModelDump(upstream.chunks[pulled + 1])
       IN  IF Forwards(event)
           THEN /\ out' = Append(out, event)
                /\ trace' = trace \o <<"PULL", "EMIT">>
           ELSE /\ out' = out
                /\ trace' = Append(trace, "PULL")
    /\ UNCHANGED <<searchVars, rewriteVars, stream, retrieval_mode, original_user_query,
                   embed_model, pc, rag_query_text, vector, extra_info, upstream, response,
                   error>>

\* line 224: the stream is exhausted, the generator ends
StreamEnds ==
    /\ pc = "streaming"
    /\ pulled = Len(upstream.chunks)
    /\ upstream.ok
    /\ pc' = "done"
    /\ UNCHANGED <<searchVars, rewriteVars, stream, retrieval_mode, original_user_query,
                   embed_model, rag_query_text, vector, extra_info, upstream, pulled, out,
                   response, error, trace>>

\* line 224: the stream raises instead of giving a next chunk
StreamBreaks ==
    /\ pc = "streaming"
    /\ pulled = Len(upstream.chunks)
    /\ ~upstream.ok
    /\ Raise("ProviderError", <<"STREAM_ERROR">>)
    /\ UNCHANGED <<searchVars, rewriteVars, stream, retrieval_mode, original_user_query,
                   embed_model, rag_query_text, vector, extra_info, upstream, pulled,
                   response>>

Next ==
    \/ RewriteCallFails
    \/ RewriteExtractionFails
    \/ RewriteReturns
    \/ EmbedSkipped
    \/ EmbedArgumentsFail
    \/ EmbedCallFails
    \/ EmbedReturns
    \/ RetrieveFails
    \/ RetrieveReturns
    \/ GenerateFails
    \/ GenerateReturns
    \/ YieldFirst
    \/ StreamCallFails
    \/ StreamOpens
    \/ StreamChunk
    \/ StreamEnds
    \/ StreamBreaks

Spec == Init /\ [][Next]_vars

\* ------------------------------------------------- claims on SearchSpec
IdsOf(rows) == {r.id : r \in Range(rows)}

\* the two sub-rankings of the call: the rows of semantic_search and keyword_search
SemanticSearch == VectorQuery(catalog, filters, tie.sub)
KeywordSearch == KeywordQuery(catalog, query_text, filters, tie.sub)

NoFilters == filters.none \/ Len(filters.list) = 0
HybridCall == query_text # NoneText /\ Len(query_vector) > 0

\* rank of X among the rows its sub-query ranks: one more than the number of rows
\* strictly better than X
VectorRankOf(i) ==
    1 + Cardinality({j \in 1..catalog.n :
                        FilterClause(catalog, j, filters) /\ catalog.dist[j] < catalog.dist[i]})
KeywordRankOf(i) ==
    1 + Cardinality({j \in 1..catalog.n :
                        /\ FilterClause(catalog, j, filters)
                        /\ query_text # <<>> /\ catalog.kw[j] > catalog.kw[i]})

\* 1/(60 + vector_rank) + 1/(60 + keyword_rank) of item i, a missing term being 0;
\* semIds and kwIds are the ids of the two sub-rankings
RRFScore(semIds, kwIds, i) ==
    FracAdd(IF i \in semIds THEN <<1, 60 + VectorRankOf(i)>> ELSE <<0, 1>>,
            IF i \in kwIds THEN <<1, 60 + KeywordRankOf(i)>> ELSE <<0, 1>>)

\* C1: a filter-free search with a text and a vector returns at most query_top
\* items (query_top >= 0), in non-increasing order of fused score, each of them in
\* the vector sub-ranking or in the keyword sub-ranking.
C1_FusionOutput ==
    (searchPc = "returned" /\ NoFilters /\ HybridCall) =>
        LET semIds == IdsOf(SemanticSearch)
            kwIds == IdsOf(KeywordSearch)
            score == [x \in 1..Len(items) |-> RRFScore(semIds, kwIds, items[x])]
        IN  /\ Len(items) <= query_top
            /\ \A x \in 1..(Len(items) - 1) : ~FracLt(score[x], score[x + 1])
            /\ \A x \in 1..Len(items) : items[x] \in semIds \cup kwIds

\* C1 witness: a fused result cut to query_top whose scores strictly decrease
\* somewhere and which holds an item of one sub-ranking only
C1_Witness ==
    /\ searchPc = "returned" /\ NoFilters /\ HybridCall
    /\ Len(items) = query_top /\ query_top >= 2 /\ Len(results) > query_top
    /\ LET semIds == IdsOf(SemanticSearch)
           kwIds == IdsOf(KeywordSearch)
       IN  /\ FracLt(RRFScore(semIds, kwIds, items[2]), RRFScore(semIds, kwIds, items[1]))
           /\ \E x \in 1..Len(items) : items[x] \notin kwIds

\* C2: in a hybrid search the score of every fetched row X is
\* 1/(60 + vector_rank(X)) + 1/(60 + keyword_rank(X)), the term of a sub-ranking
\* without X being 0; every fetched row is in a sub-ranking, and every item of a
\* sub-ranking is fetched unless LIMIT 20 cuts the fused list.
C2_RRFScore ==
    (searchPc = "returned" /\ sql = "hybrid") =>
        LET semIds == IdsOf(SemanticSearch)
            kwIds == IdsOf(KeywordSearch)
        IN  /\ \A x \in 1..Len(results) :
                  /\ FracEq(results[x].col, RRFScore(semIds, kwIds, results[x].id))
                  /\ results[x].id \in semIds \cup kwIds
            /\ \/ IdsOf(results) = semIds \cup kwIds
               \/ Len(results) = 20

\* C2 witness: the spec's example, vector_rank = 1 and no keyword rank, score 1/61,
\* beside a row that is in both sub-rankings
C2_Witness ==
    /\ searchPc = "returned" /\ sql = "hybrid"
    /\ LET semIds == IdsOf(SemanticSearch)
           kwIds == IdsOf(KeywordSearch)
       IN  /\ \E x \in 1..Len(results) :
                 /\ results[x].id \notin kwIds
                 /\ VectorRankOf(results[x].id) = 1
                 /\ results[x].col[1] * 61 = results[x].col[2]
           /\ \E x \in 1..Len(results) : results[x].id \in kwIds \cap semIds

\* C3: with exactly one of query_text / query_vector present no fusion happens: the
\* result is that sub-query's own ranking, in its order, cut to query_top.
C3_SingleModeNoFusion ==
    (searchPc = "returned" /\ ~HybridCall) =>
        LET ranking == IF query_text # NoneText THEN KeywordSearch ELSE SemanticSearch
        IN  /\ sql = (IF query_text # NoneText THEN "keyword" ELSE "vector")
            /\ Len(items) = (IF query_top < Len(ranking) THEN query_top ELSE Len(ranking))
            /\ \A x \in 1..Len(items) : items[x] = ranking[x].id
            /\ \A x \in 1..Len(results) : results[x] = ranking[x]

\* C3 witness: a keyword-only search that is cut to query_top and whose order
\* differs from the order by distance
C3_Witness ==
    /\ searchPc = "returned" /\ Len(query_vector) = 0 /\ query_text # NoneText
    /\ query_top >= 2 /\ Len(items) = query_top /\ Len(results) > query_top
    /\ catalog.dist[items[1]] > catalog.dist[items[2]]
    /\ catalog.kw[items[1]] > catalog.kw[items[2]]

\* C4: a call with query_text None and an empty query_vector never returns, raises
\* ValueError, and opens no session and executes no statement.
C4_BothAbsentRaises ==
    (query_text = NoneText /\ Len(query_vector) = 0) =>
        /\ searchPc # "returned"
        /\ searchPc = "call" => ENABLED SearchRaise
        /\ sql = None /\ sessions = 0 /\ statements = 0 /\ results = <<>>

\* C4 witness: the call has raised
C4_Witness ==
    query_text = NoneText /\ Len(query_vector) = 0 /\ searchPc = "raised"

\* ------------------------------------------------ claims on RewriteSpec
\* the text is the sentinel "0" once surrounding blanks are dropped
IsSentinel(s) ==
    /\ s # NoneText
    /\ \E x \in 1..Len(s) : s[x] = "0" /\ \A y \in (1..Len(s)) \ {x} : s[y] = " "

\* a tool call that yields no query: not a function, not search_sources, or
\* search_sources whose arguments lack search_query or give the sentinel
NoQueryToolCall(t) ==
    \/ t.type # "function"
    \/ t.name # "search_sources"
    \/ /\ t.arguments.json = "object"
       /\ ~t.arguments.has_query \/ t.arguments.search_query = <<"0">>

\* C8: without a tool call get_search_query returns the model's text when it is
\* non-empty and not the sentinel "0" (blanks trimmed), and the user message when
\* the text is the sentinel, empty or None; tool calls none of which yields a query
\* give the user message; the result is the sentinel only if the user message is.
C8_RewriteFallbackChain ==
    rewritePc = "returned" =>
        LET content == chat_completion.content
            calls == chat_completion.tool_calls
        IN  /\ Len(calls) = 0 =>
                  IF content # NoneText /\ content # <<>> /\ ~IsSentinel(content)
                  THEN search_query = content
                  ELSE search_query = user_query
            /\ (Len(calls) > 0 /\ \A x \in 1..Len(calls) : NoQueryToolCall(calls[x])) =>
                  search_query = user_query
            /\ search_query = <<"0">> => user_query = <<"0">>

\* C8 witness: a plain-text completion " 0", the sentinel behind a blank, answered
\* with the user message
C8_Witness ==
    /\ rewritePc = "returned"
    /\ Len(chat_completion.tool_calls) = 0
    /\ chat_completion.content = <<" ", "0">>
    /\ user_query = <<"a", "a">>
    /\ search_query = user_query

\* ------------------------------------------------------- claims on Spec
InTrace(e) == \E x \in 1..Len(trace) : trace[x] = e

\* the chunks with a non-empty choices list among the first n of the stream, as dicts
RECURSIVE NonEmptyChoiceChunks(_, _)
NonEmptyChoiceChunks(chunks, n) ==
    IF n = 0 THEN <<>>
    ELSE LET before == NonEmptyChoiceChunks(chunks, n - 1)
         IN  IF chunks[n].fields.choices # <<>>
             THEN Append(before, chunks[n].fields)
             ELSE before

\* C5: what run_with_streaming has yielded is one synthetic chunk (a delta with the
\* assistant role only, the trace as context) followed by exactly the upstream
\* chunks taken so far that have choices, unchanged and in order; when the
\* generator has ended, every upstream chunk has been taken.
C5_StreamOutput ==
    (stream /\ pc \in {"await_stream", "streaming", "done"}) =>
        /\ Len(out) >= 1
        /\ out[1].choices[1].delta = [role |-> "assistant"]
        /\ out[1].choices[1].context = extra_info
        /\ Len(out[1].choices) = 1
        /\ SubSeq(out, 2, Len(out)) = NonEmptyChoiceChunks(upstream.chunks, pulled)
        /\ pc = "done" => pulled = Len(upstream.chunks)

\* C5 witness: a finished stream of three upstream chunks, the first without
\* choices, which yielded the synthetic chunk and the two others
C5_Witness ==
    /\ stream /\ pc = "done"
    /\ Len(upstream.chunks) = 3
    /\ upstream.chunks[1].fields.choices = <<>>
    /\ Len(out) = 3
    /\ out[2] = upstream.chunks[2].fields /\ out[3] = upstream.chunks[3].fields
    /\ out[2] # out[3]

\* C6: in a streaming request the synthetic chunk is yielded before the completion
\* call of GENERATE is awaited and before any upstream chunk is taken or yielded;
\* it is yielded once, and it is the first chunk of the output.
C6_SyntheticFirst ==
    stream =>
        /\ \A x \in 1..Len(trace) :
              trace[x] \in {"GENERATE", "GENERATE_ERROR", "PULL", "EMIT", "STREAM_ERROR"} =>
                  \E y \in 1..(x - 1) : trace[y] = "SYNTHETIC"
        /\ \A x, y \in 1..Len(trace) :
              (trace[x] = "SYNTHETIC" /\ trace[y] = "SYNTHETIC") => x = y
        /\ Len(out) > 0 => out[1] = SyntheticChunk(extra_info)
        /\ pc \in {"await_stream", "streaming", "done"} => InTrace("SYNTHETIC")

\* C6 witness: the synthetic chunk is out and the completion call has not been made
C6_Witness ==
    /\ stream /\ pc = "await_stream"
    /\ out = <<SyntheticChunk(extra_info)>>
    /\ ~InTrace("GENERATE")
    /\ Len(extra_info.data_points) = 3

\* the completion holds a function call of search_sources whose arguments are not JSON
HasMalformedSearchCall(c) ==
    \E x \in 1..Len(c.tool_calls) :
        /\ c.tool_calls[x].type = "function"
        /\ c.tool_calls[x].name = "search_sources"
        /\ c.tool_calls[x].arguments.json = "malformed"

\* C7 (as claimed): once REWRITE was answered with a search_sources call with
\* malformed arguments, the rewriter has returned the last user message and the
\* request has not failed in REWRITE.
C7_MalformedToolCallAbsorbed ==
    (pc # "rewrite" /\ HasMalformedSearchCall(chat_completion)) =>
        /\ rewritePc = "returned"
        /\ search_query = original_user_query
        /\ ~(pc = "failed" /\ ~InTrace("EMBED") /\ ~InTrace("RETRIEVE"))

\* search has been called by the request and has returned
SearchWasCalled == searchPc = "returned"

\* C9 (as claimed): with mode text the embeddings call is never made and search gets
\* an empty vector; with mode vectors search gets None as text; with mode hybrid or
\* none search gets a text and an embedding.
C9_RetrievalModes ==
    /\ retrieval_mode = "text" => ~InTrace("EMBED")
    /\ SearchWasCalled =>
          /\ retrieval_mode = "text" => query_vector = <<>>
          /\ retrieval_mode = "vectors" => query_text = NoneText
          /\ retrieval_mode \in {"hybrid", None} =>
                query_text # NoneText /\ query_vector # <<>>

\* C10 (as claimed): a failed completion call of REWRITE does not abort the request,
\* and query_text falls back to the last user message.
C10_RewriteFailureAbsorbed ==
    InTrace("REWRITE_ERROR") =>
        /\ pc # "failed" /\ error = None
        /\ rag_query_text = original_user_query

\* the events of the external calls of the stages, and of their failures
ExternalCalls == {"REWRITE", "EMBED", "RETRIEVE", "GENERATE"}
StageFailures == {"EMBED_ERROR", "RETRIEVE_ERROR", "GENERATE_ERROR"}

TimesInTrace(e) == Cardinality({x \in 1..Len(trace) : trace[x] = e})

\* C11: when the embeddings call of EMBED, the search of RETRIEVE or the completion
\* call of GENERATE fails, the request is aborted with the error: the failure is the
\* last event of the request (no later call is issued), no response is returned and
\* no upstream chunk is yielded; and each external call is issued at most once in
\* a request, so the failed call is not repeated.
C11_FailureAborts ==
    /\ \A x \in 1..Len(trace) :
          trace[x] \in StageFailures =>
              /\ x = Len(trace)
              /\ pc = "failed" /\ error # None
              /\ response = None
              /\ ~InTrace("RETURN") /\ ~InTrace("EMIT")
              /\ Len(out) <= 1
    /\ \A c \in ExternalCalls : TimesInTrace(c) <= 1

\* C11 witness: a hybrid request whose embedding and search succeeded and whose
\* completion call then failed
C11_Witness ==
    /\ pc = "failed" /\ error = "ProviderError"
    /\ InTrace("EMBED") /\ InTrace("RETRIEVE")
    /\ Len(trace) > 0 /\ trace[Len(trace)] = "GENERATE_ERROR"
    /\ Len(items) = 3

\* C14: a streaming request that failed after its synthetic chunk has yielded that
\* chunk and the upstream chunks with choices taken before the failure, and nothing
\* else: no chunk follows the failure and no error object is among the chunks; a
\* streaming request that failed in REWRITE, EMBED or RETRIEVE has yielded no chunk.
C14_CleanStart ==
    (stream /\ pc = "failed") =>
        /\ InTrace("SYNTHETIC") =>
              out = <<SyntheticChunk(extra_info)>>
                        \o NonEmptyChoiceChunks(upstream.chunks, pulled)
        /\ ~InTrace("SYNTHETIC") => out = <<>>
        /\ ~InTrace("ASSEMBLE") => ~InTrace("SYNTHETIC")

\* C14 witness: the upstream stream broke after two chunks with choices were yielded
C14_Witness ==
    /\ stream /\ pc = "failed"
    /\ trace[Len(trace)] = "STREAM_ERROR"
    /\ pulled = 2 /\ Len(out) = 3

\* ------------------------------------------- further claims on SearchSpec
\* C13 (as claimed): every item a search returns satisfies every filter of the
\* filters list it was called with, whichever statement was run.
C13_AllFiltersApplied ==
    searchPc = "returned" =>
        \A x \in 1..Len(items) :
            \A f \in 1..Len(filters.list) :
                FilterHolds(catalog, items[x], filters.list[f])

\* C15 (as claimed): in the result of a hybrid search, of two neighbours with equal
\* fused score the one with the lower id comes first.
C15_TiesByAscendingId ==
    (searchPc = "returned" /\ sql = "hybrid") =>
        \A x \in 1..(Len(items) - 1) :
            FracEq(results[x].col, results[x + 1].col) => items[x] < items[x + 1]

\* the ids of the rows that match the call: the rows of the sub-queries of the
\* statement that was run, before any LIMIT
MatchingIds ==
    LET sem == Range(VectorRows(catalog, filters))
        kwd == Range(KeywordRows(catalog, query_text, filters))
    IN  IF sql = "hybrid" THEN sem \cup kwd
        ELSE IF sql = "vector" THEN sem
        ELSE kwd

\* C18 (as claimed): a search called with query_top returns exactly
\* min(query_top, number of matching items) items.
C18_ReturnsTopK ==
    searchPc = "returned" =>
        LET n == Cardinality(MatchingIds)
        IN  Len(items) = IF query_top < n THEN query_top ELSE n

\* ----------------------------------------------- further claims on Spec
\* the stage an event of the trace belongs to, numbered in the claimed order
\* REWRITE, EMBED, RETRIEVE, ASSEMBLE, GENERATE, STREAM or RETURN
StageOf(e) ==
    IF e \in {"REWRITE", "REWRITE_ERROR"} THEN 1
    ELSE IF e \in {"EMBED", "EMBED_ERROR"} THEN 2
    ELSE IF e \in {"RETRIEVE", "RETRIEVE_ERROR"} THEN 3
    ELSE IF e = "ASSEMBLE" THEN 4
    ELSE IF e \in {"GENERATE", "GENERATE_ERROR"} THEN 5
    ELSE 6

\* the events that mark a stage's single run
StageRuns == {"REWRITE", "EMBED", "RETRIEVE", "ASSEMBLE", "GENERATE", "SYNTHETIC", "RETURN"}

\* C16 (as claimed): the events of a request are in the order of the stages REWRITE,
\* EMBED, RETRIEVE, ASSEMBLE, GENERATE, STREAM or RETURN: no event of a stage
\* comes before an event of an earlier stage; a stage runs once; EMBED runs only
\* in a mode with vectors.
C16_StageOrder ==
    /\ \A x, y \in 1..Len(trace) : x < y => StageOf(trace[x]) <= StageOf(trace[y])
    /\ \A e \in StageRuns : TimesInTrace(e) <= 1
    /\ InTrace("EMBED") => retrieval_mode # "text"

\* the step an event belongs to when the synthetic chunk of STREAM is a step of
\* its own between ASSEMBLE and GENERATE
StepOf(e) ==
    IF e = "SYNTHETIC" THEN 5
    ELSE IF StageOf(e) <= 4 THEN StageOf(e)
    ELSE StageOf(e) + 1

\* C16 (amended): the events of a request are in the order REWRITE, EMBED (only in
\* a mode with vectors), RETRIEVE, ASSEMBLE, then without streaming GENERATE and
\* RETURN, and with streaming the synthetic chunk, the completion call of
\* GENERATE and the forwarding of the upstream chunks; every step runs once, after
\* the steps before it have completed, and none is re-entered.
C16_StageOrderSyntheticFirst ==
    /\ \A x, y \in 1..Len(trace) : x < y => StepOf(trace[x]) <= StepOf(trace[y])
    /\ \A e \in StageRuns : TimesInTrace(e) <= 1
    /\ InTrace("EMBED") => retrieval_mode # "text"
    /\ InTrace("RETRIEVE") =>
          /\ InTrace("REWRITE")
          /\ retrieval_mode # "text" => InTrace("EMBED")
    /\ InTrace("ASSEMBLE") => InTrace("RETRIEVE")
    /\ InTrace("SYNTHETIC") => stream /\ InTrace("ASSEMBLE")
    /\ InTrace("GENERATE") => InTrace("ASSEMBLE") /\ (stream <=> InTrace("SYNTHETIC"))
    /\ InTrace("RETURN") => ~stream /\ InTrace("GENERATE")
    /\ (InTrace("PULL") \/ InTrace("STREAM_ERROR")) => stream /\ InTrace("GENERATE")

\* C16 witness: a finished streaming request in hybrid mode that went through every
\* step and forwarded an upstream chunk
C16_Witness ==
    /\ stream /\ pc = "done" /\ retrieval_mode = "hybrid"
    /\ SubSeq(trace, 1, 6) = <<"REWRITE", "EMBED", "RETRIEVE", "ASSEMBLE", "SYNTHETIC", "GENERATE">>
    /\ InTrace("EMIT")

\* C17 (as claimed): in a mode with text, the text search was called with is the
\* query the rewriter returned, which is the one the thought step records.
C17_RewrittenQuerySearched ==
    (SearchWasCalled /\ retrieval_mode \in {"text", "hybrid", None}) =>
        /\ query_text = search_query
        /\ query_text = extra_info.thoughts.search_query

====
